---- MODULE Spec2Model ----
(***************************************************************************)
(* Smart Travel Planner (src/main.py): the record normaliser               *)
(* (filter_and_map_items and its nested extractors), the category selector *)
(* (plan_trip.build_category), the budget allocator (calculate_budgets)    *)
(* and the plan_trip request pipeline.                                     *)
(*                                                                         *)
(* JSON values are tagged records: None_, Num(n), Str(s), Dict(d), List(l).*)
(* A string is a sequence of one-character strings, so that lower(),       *)
(* strip(), replace(",", "") and float() are computed, character by        *)
(* character.  A dict is a function whose DOMAIN is the set of keys that   *)
(* are present.  Numbers are non-negative integers: float() is modelled on *)
(* decimal digit strings; fractional, signed, exponent and non-finite      *)
(* spellings ("1.5", "-1", "1e3", "nan", "inf") are outside the value      *)
(* domain of the model.                                                    *)
(***************************************************************************)
EXTENDS Integers, Sequences, FiniteSets, TLC

VARIABLES
    pc,           \* position of the operation under check
    raw_items,    \* filter_and_map_items: the raw records of one category
    destination,  \* filter_and_map_items: the destination string
    budget,       \* build_category: the category's daily budget
    price_value,  \* extract_price: the derived price (None_ when none)
    results,      \* filter_and_map_items: the returned ExternalItem list
    suggestion,   \* build_category: the returned CategorySuggestion
    req,          \* plan_trip: the TripRequest
    alloc,        \* plan_trip: what calculate_budgets returned
    destination_name,     \* plan_trip: the name records are filtered by
    fetched,      \* plan_trip: the raw lists of the four categories
    plan_response,        \* plan_trip: the TripPlanResponse
    destination_city_id,  \* plan_trip: the id handed to send_budget_to_api
    response,     \* plan_trip: what the caller receives
    calls         \* the requests sent to the external API, in order

\* The variables of the operations checked on their own.
fn_vars == <<raw_items, destination, budget, price_value, results, suggestion>>

\* The variables of a plan_trip request.
trip_vars ==
    <<req, alloc, destination_name, fetched, plan_response, destination_city_id,
      response, calls>>

vars == <<pc, fn_vars, trip_vars>>

(***************************************************************************)
(* Bounds of the model.                                                    *)
(***************************************************************************)
\* Largest price a raw record carries.
MaxPrice == 3
\* Longest raw list handed to filter_and_map_items.
MaxRaw == 3
\* Longest raw list handed to build_category.
MaxItems == 4
\* Largest price in a raw list handed to build_category.
MaxSelPrice == 2

(***************************************************************************)
(* JSON values.                                                            *)
(***************************************************************************)
None_ == [t |-> "none"]
Num(n) == [t |-> "num", v |-> n]
Str(s) == [t |-> "str", s |-> s]
Dict(d) == [t |-> "dict", d |-> d]
List(l) == [t |-> "list", l |-> l]

\* The dict with no key.
EmptyDict == [k \in {} |-> None_]

\* dict.get(key): the value, None when the key is absent.
Get(d, key) == IF key \in DOMAIN d THEN d[key] ELSE None_

\* Python truthiness of a value: None, 0, "", {} and [] are falsy.
Truthy(value) ==
    CASE value.t = "none" -> FALSE
      [] value.t = "num" -> value.v # 0
      [] value.t = "str" -> value.s # <<>>
      [] value.t = "dict" -> DOMAIN value.d # {}
      [] value.t = "list" -> value.l # <<>>

\* Python's `a or b`.
Or(a, b) == IF Truthy(a) THEN a ELSE b

(***************************************************************************)
(* Strings.                                                                *)
(***************************************************************************)
Digits == {"0", "1", "2", "3", "4", "5", "6", "7", "8", "9"}

DigitVal(c) ==
    CASE c = "0" -> 0 [] c = "1" -> 1 [] c = "2" -> 2 [] c = "3" -> 3
      [] c = "4" -> 4 [] c = "5" -> 5 [] c = "6" -> 6 [] c = "7" -> 7
      [] c = "8" -> 8 [] c = "9" -> 9

\* str.lower(), one character.
LowerChar(c) ==
    CASE c = "J" -> "j"
      [] c = "R" -> "r"
      [] OTHER -> c

\* str.lower()
Lower(s) == [i \in 1..Len(s) |-> LowerChar(s[i])]

RECURSIVE LStrip(_)
LStrip(s) == IF s # <<>> /\ Head(s) = " " THEN LStrip(Tail(s)) ELSE s

RECURSIVE RStrip(_)
RStrip(s) ==
    IF s # <<>> /\ s[Len(s)] = " " THEN RStrip(SubSeq(s, 1, Len(s) - 1)) ELSE s

\* str.strip()
Strip(s) == RStrip(LStrip(s))

\* str.replace(",", "")
RemoveCommas(s) == SelectSeq(s, LAMBDA c : c # ",")

\* a in b, for strings
IsSubstring(a, b) ==
    \E i \in 0..(Len(b) - Len(a)) : SubSeq(b, i + 1, i + Len(a)) = a

RECURSIVE ParseDigits(_)
ParseDigits(s) ==
    IF s = <<>> THEN 0
    ELSE 10 * ParseDigits(SubSeq(s, 1, Len(s) - 1)) + DigitVal(s[Len(s)])

\* float(s) / int(s) of a string already stripped: a number for a non-empty
\* digit string, None_ for the ValueError of anything else.
ParseNumber(s) ==
    IF s # <<>> /\ \A i \in 1..Len(s) : s[i] \in Digits
    THEN Num(ParseDigits(s))
    ELSE None_

(***************************************************************************)
(* filter_and_map_items: the candidate-key lists.                          *)
(***************************************************************************)
price_field_candidates ==
    <<"price", "price_per_night", "min_price", "max_price", "amount", "cost">>

price_range_candidates ==
    <<"min", "from", "start", "low", "price", "amount", "minimum">>

location_field_candidates ==
    <<"city", "city_name", "region", "location", "destination", "area", "address">>

location_sub_candidates == <<"name", "city", "region", "address">>

(***************************************************************************)
(* filter_and_map_items.coerce_price                                       *)
(***************************************************************************)
coerce_price(value) ==
    IF value = None_ \/ value = Str(<<>>) THEN None_
    ELSE IF value.t = "num" THEN Num(value.v)
    ELSE IF value.t = "str" THEN ParseNumber(Strip(RemoveCommas(value.s)))
    ELSE None_

\* The loop `for key in keys: if key in d: price = coerce_price(d[key]); if
\* price is not None: return price`, from position i on; None_ when it ends.
RECURSIVE FirstCoercible(_, _, _)
FirstCoercible(keys, d, i) ==
    IF i > Len(keys) THEN None_
    ELSE IF keys[i] \in DOMAIN d /\ coerce_price(d[keys[i]]) # None_
         THEN coerce_price(d[keys[i]])
         ELSE FirstCoercible(keys, d, i + 1)

(***************************************************************************)
(* filter_and_map_items.extract_price                                      *)
(***************************************************************************)
\* Step 1: the direct scalar fields, in candidate order.
direct_price(item) == FirstCoercible(price_field_candidates, item, 1)

\* Step 2: the price_range mapping, in candidate order.
range_price(item) ==
    LET price_range == Get(item, "price_range")
    IN  IF price_range.t = "dict"
        THEN FirstCoercible(price_range_candidates, price_range.d, 1)
        ELSE None_

\* `entries`: foods["data"] or [] for a mapping, foods itself for a list,
\* [] otherwise.
food_entries(item) ==
    LET foods == Get(item, "foods")
    IN  IF foods.t = "dict" THEN Or(Get(foods.d, "data"), List(<<>>))
        ELSE IF foods.t = "list" THEN foods
        ELSE List(<<>>)

\* The elements `for entry in entries` visits: those of a list; iterating a
\* mapping or a string visits keys or characters, none of which is a dict (a
\* number under "data" is not in the input domain).
entry_seq(entries) == IF entries.t = "list" THEN entries.l ELSE <<>>

RECURSIVE extract_price(_)
RECURSIVE best_food_price(_, _, _)

\* Mutant of best_food_price: the first priced sub-item wins (the comparison
\* `price < best_food_price` lost).
best_food_price_first(entries, i, best) ==
    IF i > Len(entries) THEN best
    ELSE LET entry == entries[i]
             price == IF entry.t = "dict" THEN extract_price(entry.d) ELSE None_
         IN  IF price # None_ /\ best = None_
             THEN best_food_price(entries, i + 1, price)
             ELSE best_food_price(entries, i + 1, best)

\* The loop over entries from position i on, with the best price so far.
best_food_price(entries, i, best) ==
    IF i > Len(entries) THEN best
    ELSE LET entry == entries[i]
             price == IF entry.t = "dict" THEN extract_price(entry.d) ELSE None_
         IN  IF price # None_ /\ (best = None_ \/ price.v < best.v)
             THEN best_food_price(entries, i + 1, price)
             ELSE best_food_price(entries, i + 1, best)

\* Step 3: the cheapest sub-item under foods.
foods_price(item) == best_food_price(entry_seq(food_entries(item)), 1, None_)

\* Mutant of extract_price: price_range consulted before the direct fields.
extract_price_range_first(item) ==
    IF range_price(item) # None_ THEN range_price(item)
    ELSE IF direct_price(item) # None_ THEN direct_price(item)
    ELSE foods_price(item)

extract_price(item) ==
    IF direct_price(item) # None_ THEN direct_price(item)
    ELSE IF range_price(item) # None_ THEN range_price(item)
    ELSE foods_price(item)

(***************************************************************************)
(* filter_and_map_items.extract_location                                   *)
(***************************************************************************)
\* The inner loop over ("name", "city", "region", "address") of a mapping,
\* from position i on: the first sub-field that is a non-empty string.
RECURSIVE location_sub_field(_, _)
location_sub_field(value, i) ==
    IF i > Len(location_sub_candidates) THEN None_
    ELSE LET sub_val == Get(value, location_sub_candidates[i])
         IN  IF sub_val.t = "str" /\ sub_val.s # <<>>
             THEN sub_val
             ELSE location_sub_field(value, i + 1)

\* What one truthy candidate value yields: itself when a string, a sub-field
\* when a mapping, nothing otherwise.
location_of_value(value) ==
    IF value.t = "str" THEN value
    ELSE IF value.t = "dict" THEN location_sub_field(value.d, 1)
    ELSE None_

\* The fallback after the loop: city["name"] when city is a mapping and the
\* name a string (empty or not).
location_fallback(item) ==
    LET city == Get(item, "city")
    IN  IF city.t = "dict" /\ Get(city.d, "name").t = "str"
        THEN Get(city.d, "name")
        ELSE None_

\* The loop over location_field_candidates from position i on.
RECURSIVE location_loop(_, _)
location_loop(item, i) ==
    IF i > Len(location_field_candidates) THEN location_fallback(item)
    ELSE LET key == location_field_candidates[i]
         IN  IF /\ key \in DOMAIN item
                /\ Truthy(item[key])
                /\ location_of_value(item[key]) # None_
             THEN location_of_value(item[key])
             ELSE location_loop(item, i + 1)

extract_location(item) == location_loop(item, 1)

(***************************************************************************)
(* filter_and_map_items: one record, the sort, the whole batch.            *)
(***************************************************************************)
\* int(item["id"]) with TypeError and ValueError caught; None without "id".
item_id(item) ==
    IF "id" \notin DOMAIN item THEN None_
    ELSE IF item["id"].t = "num" THEN item["id"]
    ELSE IF item["id"].t = "str" THEN ParseNumber(Strip(item["id"].s))
    ELSE None_

\* min_price_val: coerce_price(price_range.get("min") or price_range.get("from"))
\* when price_range is a mapping, None otherwise.
min_price_val(item) ==
    LET price_range == Get(item, "price_range")
    IN  IF price_range.t = "dict"
        THEN coerce_price(Or(Get(price_range.d, "min"), Get(price_range.d, "from")))
        ELSE None_

\* max_price_val: the same with "max" and "to".
max_price_val(item) ==
    LET price_range == Get(item, "price_range")
    IN  IF price_range.t = "dict"
        THEN coerce_price(Or(Get(price_range.d, "max"), Get(price_range.d, "to")))
        ELSE None_

\* Mutant of location_matches: the location is not lower-cased.
location_matches_case(location_value, destination_lower) ==
    Truthy(location_value) => IsSubstring(destination_lower, location_value.s)

\* The destination test of the loop body: a truthy location must contain
\* destination_lower.
location_matches(location_value, destination_lower) ==
    Truthy(location_value) => IsSubstring(destination_lower, Lower(location_value.s))

\* ExternalItem(...) as the loop body builds it (name and url, which are only
\* displayed, are left out).
ExternalItem(item, price) ==
    [id |-> item_id(item),
     price |-> price,
     min_price |-> Or(min_price_val(item), price),
     max_price |-> Or(max_price_val(item), price),
     location |-> extract_location(item),
     raw |-> item]

\* Mutant of map_item: a record without a price is kept, priced 0.
map_item_keep_unpriced(item, destination_lower) ==
    IF ~location_matches(extract_location(item), destination_lower) THEN <<>>
    ELSE <<ExternalItem(item, Or(extract_price(item), Num(0)))>>

\* One pass of the loop body: the items appended for one raw record (none
\* when it has no price or names another place).
map_item(item, destination_lower) ==
    IF extract_price(item) = None_ THEN <<>>
    ELSE IF ~location_matches(extract_location(item), destination_lower) THEN <<>>
    ELSE <<ExternalItem(item, extract_price(item))>>

\* Mutant of insert_by_price: x goes before the elements of equal price.
insert_by_price_unstable(sorted, x) ==
    LET n == Cardinality({i \in 1..Len(sorted) : sorted[i].price.v < x.price.v})
    IN  SubSeq(sorted, 1, n) \o <<x>> \o SubSeq(sorted, n + 1, Len(sorted))

\* x inserted into a price-sorted list after every element whose price is
\* not greater: list.sort is stable.
insert_by_price(sorted, x) ==
    LET n == Cardinality({i \in 1..Len(sorted) : sorted[i].price.v <= x.price.v})
    IN  SubSeq(sorted, 1, n) \o <<x>> \o SubSeq(sorted, n + 1, Len(sorted))

\* list.sort(key=lambda x: x.price)
RECURSIVE sort_by_price(_)
sort_by_price(items) ==
    IF items = <<>> THEN <<>>
    ELSE insert_by_price(sort_by_price(SubSeq(items, 1, Len(items) - 1)),
                         items[Len(items)])

\* The loop `for item in raw_items`, from position i on.
RECURSIVE map_items(_, _, _)
map_items(raw, destination_lower, i) ==
    IF i > Len(raw) THEN <<>>
    ELSE map_item(raw[i].d, destination_lower) \o map_items(raw, destination_lower, i + 1)

\* An element of the batch that is not a mapping: `key in item`, item[key]
\* or item.get raises TypeError or AttributeError at that element, and the
\* call of filter_and_map_items ends there.
item_not_mapping(raw) == \E i \in 1..Len(raw) : raw[i].t # "dict"

filter_and_map_items(raw, max_price_per_day, dest) ==
    sort_by_price(map_items(raw, Strip(Lower(dest)), 1))

(***************************************************************************)
(* plan_trip.build_category                                                *)
(***************************************************************************)
\* A budget figure: the exact quotient num / den (den > 0) of the float the
\* code computes.
Money(num, den) == [num |-> num, den |-> den]

\* item.price <= budget
price_leq_budget(price, category_budget) ==
    price.v * category_budget.den <= category_budget.num

\* The advisory messages.
Message(id) == [t |-> "message", id |-> id]

\* affordable[:3]
MaxSuggestions == 3

CategorySuggestion(budget_per_day, suggested_items, within_budget, message) ==
    [budget_per_day |-> budget_per_day,
     suggested_items |-> suggested_items,
     within_budget |-> within_budget,
     message |-> message]

\* seq[:n]
Take(seq, n) == SubSeq(seq, 1, IF Len(seq) < n THEN Len(seq) ELSE n)

\* Mutant of build_category: an item priced exactly at the budget does not
\* count as affordable.
build_category_strict(raw, category_budget, label, dest) ==
    LET mapped == filter_and_map_items(raw, category_budget, dest)
        affordable ==
            sort_by_price(SelectSeq(mapped,
                LAMBDA x : x.price.v * category_budget.den < category_budget.num))
    IN  IF mapped = <<>>
        THEN CategorySuggestion(category_budget, <<>>, FALSE, Message("no_options"))
        ELSE IF affordable # <<>>
        THEN CategorySuggestion(category_budget, Take(affordable, MaxSuggestions),
                                TRUE, None_)
        ELSE CategorySuggestion(category_budget, <<mapped[1]>>, FALSE,
                                Message("raise_budget"))

\* Mutant of build_category: the fallback takes the last item of the sorted
\* list instead of the first.
build_category_last(raw, category_budget, label, dest) ==
    LET mapped == filter_and_map_items(raw, category_budget, dest)
        affordable ==
            sort_by_price(SelectSeq(mapped,
                LAMBDA x : price_leq_budget(x.price, category_budget)))
    IN  IF mapped = <<>>
        THEN CategorySuggestion(category_budget, <<>>, FALSE, Message("no_options"))
        ELSE IF affordable # <<>>
        THEN CategorySuggestion(category_budget, Take(affordable, MaxSuggestions),
                                TRUE, None_)
        ELSE CategorySuggestion(category_budget, <<mapped[Len(mapped)]>>, FALSE,
                                Message("raise_budget"))

\* Mutant of build_category: no guard for the empty list, which then counts
\* as within budget.
build_category_no_guard(raw, category_budget, label, dest) ==
    LET mapped == filter_and_map_items(raw, category_budget, dest)
        affordable ==
            sort_by_price(SelectSeq(mapped,
                LAMBDA x : price_leq_budget(x.price, category_budget)))
    IN  IF affordable # <<>> \/ mapped = <<>>
        THEN CategorySuggestion(category_budget, Take(affordable, MaxSuggestions),
                                TRUE, None_)
        ELSE CategorySuggestion(category_budget, <<mapped[1]>>, FALSE,
                                Message("raise_budget"))

build_category(raw, category_budget, label, dest) ==
    LET mapped == filter_and_map_items(raw, category_budget, dest)
        affordable ==
            sort_by_price(SelectSeq(mapped,
                LAMBDA x : price_leq_budget(x.price, category_budget)))
    IN  IF mapped = <<>>
        THEN CategorySuggestion(category_budget, <<>>, FALSE, Message("no_options"))
        ELSE IF affordable # <<>>
        THEN CategorySuggestion(category_budget, Take(affordable, MaxSuggestions),
                                TRUE, None_)
        ELSE CategorySuggestion(category_budget, <<mapped[1]>>, FALSE,
                                Message("raise_budget"))

(***************************************************************************)
(* calculate_budgets                                                       *)
(***************************************************************************)
\* A percentage is a whole number of units of 1 / PctScale (0.0000005).
PctScale == 2 * 1000000

\* 1e-6, in those units.
Tolerance == 2

\* BudgetPercentages(): 0.4, 0.25, 0.2, 0.15.
BudgetPercentages ==
    [hotels |-> 4 * (PctScale \div 10), food |-> PctScale \div 4,
     activities |-> 2 * (PctScale \div 10), transport |-> 3 * (PctScale \div 20)]

Abs(x) == IF x < 0 THEN 0 - x ELSE x

\* What a call raised: an HTTPException with its status, or an exception of
\* the HTTP client (no response at all).
Raised(exception, status_code, detail) ==
    [raised |-> TRUE, exception |-> exception, status_code |-> status_code,
     detail |-> detail]

HTTPException(status_code, detail) == Raised("HTTPException", status_code, detail)

\* What a call returned.
Returned(value) == [raised |-> FALSE, value |-> value]

\* req.percentages or BudgetPercentages()
percentages_of(r) ==
    IF r.percentages = None_ THEN BudgetPercentages ELSE r.percentages

total_ratio(percentages) ==
    percentages.hotels + percentages.food + percentages.activities
        + percentages.transport

\* Amounts are exact fractions in lowest terms.
RECURSIVE GCD(_, _)
GCD(a, b) == IF b = 0 THEN a ELSE GCD(b, a % b)

\* num / den
Ratio(num, den) == Money(num \div GCD(num, den), den \div GCD(num, den))

\* x * y, for x and y in lowest terms.
Times(x, y) ==
    Money((x.num \div GCD(x.num, y.den)) * (y.num \div GCD(y.num, x.den)),
          (x.den \div GCD(y.num, x.den)) * (y.den \div GCD(x.num, y.den)))

\* Mutant of calculate_budgets: the sum of the percentages is not checked.
calculate_budgets_unchecked(r) ==
    LET per_person_total == Ratio(r.total_budget, r.people_count)
        per_person_per_day == Times(per_person_total, Ratio(1, r.days))
        percentages == percentages_of(r)
    IN  Returned(
            [per_person_total |-> per_person_total,
             per_person_per_day |-> per_person_per_day,
             budgets_per_day |->
                [c \in {"hotels", "food", "activities", "transport"} |->
                    Times(per_person_per_day, Ratio(percentages[c], PctScale))]])

\* Mutant of calculate_budgets: the daily amount is the total budget over the
\* days, not divided among the people.
calculate_budgets_per_group(r) ==
    LET per_person_total == Ratio(r.total_budget, r.people_count)
        per_person_per_day == Ratio(r.total_budget, r.days)
        percentages == percentages_of(r)
    IN  IF Abs(total_ratio(percentages) - PctScale) > Tolerance
        THEN HTTPException(400, "percentages must sum to 1.0")
        ELSE Returned(
            [per_person_total |-> per_person_total,
             per_person_per_day |-> per_person_per_day,
             budgets_per_day |->
                [c \in {"hotels", "food", "activities", "transport"} |->
                    Times(per_person_per_day, Ratio(percentages[c], PctScale))]])

calculate_budgets(r) ==
    LET per_person_total == Ratio(r.total_budget, r.people_count)
        per_person_per_day == Times(per_person_total, Ratio(1, r.days))
        percentages == percentages_of(r)
    IN  IF Abs(total_ratio(percentages) - PctScale) > Tolerance
        THEN HTTPException(400, "percentages must sum to 1.0")
        ELSE Returned(
            [per_person_total |-> per_person_total,
             per_person_per_day |-> per_person_per_day,
             budgets_per_day |->
                [c \in {"hotels", "food", "activities", "transport"} |->
                    Times(per_person_per_day, Ratio(percentages[c], PctScale))]])

(***************************************************************************)
(* The external API: responses and how they are read.                      *)
(***************************************************************************)
\* A response of the external API, or the failure of the request itself.
HttpResponse(status_code, json) ==
    [kind |-> "response", status_code |-> status_code, json |-> json]

TransportFailure == [kind |-> "failure"]

\* fetch_list_from_external, given what the GET produced.
fetch_list_from_external(endpoint, resp) ==
    IF resp.kind = "failure" THEN Raised("httpx", 500, endpoint)
    ELSE IF resp.status_code # 200 THEN HTTPException(502, endpoint)
    ELSE LET data == resp.json
         IN  IF data.t = "dict" /\ Get(data.d, "data").t = "list"
             THEN Returned(data.d["data"].l)
             ELSE IF data.t = "dict" /\ Get(data.d, "items").t = "list"
             THEN Returned(data.d["items"].l)
             ELSE IF data.t = "list" THEN Returned(data.l)
             ELSE HTTPException(502, "unexpected response format")

\* fetch_all_external.normalize
normalize(resp) ==
    LET data == resp.json
    IN  IF data.t = "dict" /\ Get(data.d, "data").t = "list" THEN data.d["data"].l
        ELSE IF data.t = "list" THEN data.l
        ELSE <<>>

\* fetch_all_external, given what the three GETs produced.
fetch_all_external(res_activities, res_hotels, res_plains) ==
    IF \E r \in {res_activities, res_hotels, res_plains} : r.kind = "failure"
    THEN Raised("httpx", 500, "fetch_all_external")
    ELSE IF res_activities.status_code # 200 THEN HTTPException(502, "activities")
    ELSE IF res_hotels.status_code # 200 THEN HTTPException(502, "hotels")
    ELSE IF res_plains.status_code # 200 THEN HTTPException(502, "plains")
    ELSE Returned([activities |-> normalize(res_activities),
                   hotels |-> normalize(res_hotels),
                   plains |-> normalize(res_plains)])

\* The loop of find_city_id_by_name over the roster, from position i on.
RECURSIVE city_id_in(_, _, _)
city_id_in(cities, city_name_lower, i) ==
    IF i > Len(cities) THEN None_
    ELSE LET name == Get(cities[i].d, "name")
             city_id == Get(cities[i].d, "id")
         IN  IF /\ Truthy(name)
                /\ Strip(Lower(name.s)) = city_name_lower
                /\ city_id.t = "num"
             THEN city_id
             ELSE city_id_in(cities, city_name_lower, i + 1)

\* find_city_id_by_name, given what GET cities produced.
find_city_id_by_name(city_name, resp) ==
    LET cities == fetch_list_from_external("cities", resp)
    IN  IF cities.raised THEN cities
        ELSE Returned(city_id_in(cities.value, Strip(Lower(city_name)), 1))

\* next((c for c in cities if c.get("id") == req.city_id), None)
RECURSIVE city_match(_, _, _)
city_match(cities, city_id, i) ==
    IF i > Len(cities) THEN None_
    ELSE IF Get(cities[i].d, "id") = city_id THEN cities[i]
    ELSE city_match(cities, city_id, i + 1)

(***************************************************************************)
(* send_budget_to_api                                                      *)
(***************************************************************************)
\* A request sent to the external API.
Get_(endpoint) == [method |-> "GET", endpoint |-> endpoint]

Post_(endpoint, json) == [method |-> "POST", endpoint |-> endpoint, json |-> json]

\* int(percentage * 100)
whole_percent(percentage) == (percentage * 100) \div PctScale

\* The line items of one category: one per suggested item that has an id.
RECURSIVE line_items(_, _, _)
line_items(suggested_items, types, i) ==
    IF i > Len(suggested_items) THEN <<>>
    ELSE (IF suggested_items[i].id # None_
          THEN <<[type_id |-> suggested_items[i].id.v,
                  amount |-> suggested_items[i].price.v,
                  types |-> types]>>
          ELSE <<>>)
         \o line_items(suggested_items, types, i + 1)

\* Mutant of budget_sub_entry: the entry is emitted whenever the category has
\* suggestions, also when none of them has an id.
budget_sub_entry_unguarded(type, percentage, category, description, types) ==
    LET items == line_items(category.suggested_items, types, 1)
    IN  IF category.suggested_items # <<>>
        THEN <<[type |-> type,
                presentaige |-> whole_percent(percentage),
                description |->
                    IF category.message # None_ THEN category.message
                    ELSE Message(description),
                items |-> items]>>
        ELSE <<>>

\* The budget_sub entry of one category, if any.
budget_sub_entry(type, percentage, category, description, types) ==
    LET items == line_items(category.suggested_items, types, 1)
    IN  IF category.suggested_items # <<>> /\ items # <<>>
        THEN <<[type |-> type,
                presentaige |-> whole_percent(percentage),
                description |->
                    IF category.message # None_ THEN category.message
                    ELSE Message(description),
                items |-> items]>>
        ELSE <<>>

budget_sub(plan, percentages) ==
    budget_sub_entry("restaurant", percentages.food, plan.food,
                     "Restaurant budget", "meal day")
    \o budget_sub_entry("hotel", percentages.hotels, plan.hotels,
                        "Hotel budget", "night")
    \o budget_sub_entry("activities", percentages.activities, plan.activities,
                        "Activities budget", "activity")
    \o budget_sub_entry("plane", percentages.transport, plan.transport,
                        "Transport budget", "round trip")

\* f"{x:.2f}" of a whole amount: its digits, then ".00".
two_decimals(x) == [whole |-> x, fraction |-> <<"0", "0">>]

\* budget_data (name and address, free text, are left out).
budget_data(r, plan, to_city_id) ==
    [teams_number |-> r.people_count,
     days |-> r.days,
     amount |-> two_decimals(r.total_budget),
     from_city_id |-> r.from_city_id,
     to_city_id |-> to_city_id,
     user_id |-> r.user_id,
     budget_sub |-> budget_sub(plan, percentages_of(r))]

\* send_budget_to_api, given what GET cities (sent only when no destination
\* id is at hand) and POST budgets produced: what it returned or raised, and
\* the requests it sent.
send_budget_to_api(r, plan, dest_city_id, cities_resp, post_resp) ==
    LET given == Or(r.to_city_id, dest_city_id)
        lookup == IF given = None_
                  THEN find_city_id_by_name(r.destination, cities_resp)
                  ELSE Returned(given)
        looked_up == IF given = None_ THEN <<Get_("cities")>> ELSE <<>>
    IN  IF lookup.raised THEN [result |-> lookup, sent |-> looked_up]
        ELSE IF lookup.value = None_
        THEN [result |-> HTTPException(400, "to_city_id"), sent |-> looked_up]
        ELSE IF r.from_city_id = None_
        THEN [result |-> HTTPException(400, "from_city_id"), sent |-> looked_up]
        ELSE IF r.user_id = None_
        THEN [result |-> HTTPException(400, "user_id"), sent |-> looked_up]
        ELSE [result |->
                IF post_resp.kind = "failure" THEN Raised("httpx", 500, "budgets")
                ELSE IF post_resp.status_code \notin {200, 201}
                THEN HTTPException(502, "budgets")
                ELSE Returned(post_resp.json),
              sent |->
                Append(looked_up,
                       Post_("budgets", budget_data(r, plan, lookup.value)))]

(***************************************************************************)
(* plan_trip                                                               *)
(***************************************************************************)
\* The four categories and the TripPlanResponse, built from the raw lists.
TripPlanResponse(allocation, raw, dest) ==
    [per_person_total |-> allocation.per_person_total,
     per_person_per_day |-> allocation.per_person_per_day,
     budgets_per_day |-> allocation.budgets_per_day,
     hotels |-> build_category(raw.hotels, allocation.budgets_per_day["hotels"],
                               "hotels", dest),
     activities |-> build_category(raw.activities,
                                   allocation.budgets_per_day["activities"],
                                   "activities", dest),
     transport |-> build_category(raw.plains,
                                  allocation.budgets_per_day["transport"],
                                  "transport", dest),
     food |-> build_category(raw.restaurants, allocation.budgets_per_day["food"],
                             "food", dest)]

\* What the caller receives when plan_trip raises.
ErrorResponse(exc) == [status_code |-> exc.status_code, detail |-> exc.detail]

\* What the caller receives when plan_trip returns.
OkResponse(plan) == [status_code |-> 200, body |-> plan]

(***************************************************************************)
(* Input domains.                                                          *)
(***************************************************************************)
PriceNums == {Num(n) : n \in 0..MaxPrice}

\* None, the empty string, non-numeric strings, other types.
Uncoercible ==
    {None_, Str(<<>>), Str(<<"a">>), Str(<<" ">>), Str(<<"1", " ", "2">>),
     List(<<>>), Dict(EmptyDict)}

\* "2", " 3", "1,0" and "4 ": 2, 3, 10 and 4.
NumStrings ==
    {Str(<<"2">>), Str(<<" ", "3">>), Str(<<"1", ",", "0">>), Str(<<"4", " ">>)}

PriceVals == PriceNums \cup Uncoercible \cup NumStrings

SmallVals == PriceNums \cup {None_, Str(<<"a">>)}

Keys(candidates) == {candidates[i] : i \in 1..Len(candidates)}

\* One direct field holding any kind of value.
OneFieldItems ==
    {k :> v : k \in Keys(price_field_candidates), v \in PriceVals}

\* Two direct fields.
TwoFieldItems ==
    {(k1 :> v1) @@ (k2 :> v2) :
        k1 \in Keys(price_field_candidates), k2 \in Keys(price_field_candidates),
        v1 \in SmallVals, v2 \in SmallVals}

\* At most one direct field, and a price_range of any shape.
RangeVals ==
    {Num(1), Str(<<"2">>)} \cup
    {Dict((k1 :> v1) @@ (k2 :> v2)) :
        k1 \in Keys(price_range_candidates), k2 \in Keys(price_range_candidates),
        v1 \in SmallVals, v2 \in SmallVals}

RangeItems ==
    {d @@ ("price_range" :> r) :
        d \in {EmptyDict, "cost" :> Str(<<"a">>), "cost" :> Num(MaxPrice)},
        r \in RangeVals}

\* Sub-items of a foods collection.
SubItems ==
    {Dict("price" :> v) : v \in PriceNums \cup {Str(<<"a">>)}} \cup
    {Dict("price_range" :> Dict("from" :> Num(1))),
     Dict("foods" :> List(<<Dict("price" :> Num(0))>>)),
     Dict(EmptyDict), Num(1)}

SubItemLists ==
    {<<>>} \cup {<<a>> : a \in SubItems} \cup {<<a, b>> : a, b \in SubItems}

FoodsVals ==
    {List(l) : l \in SubItemLists} \cup
    {Dict("data" :> List(l)) : l \in SubItemLists} \cup
    {Dict("items" :> List(l)) : l \in SubItemLists} \cup
    {None_, Str(<<"a">>), Dict("data" :> None_),
     Dict("data" :> Dict("price" :> Num(1)))}

FoodsItems ==
    {d @@ ("foods" :> f) :
        d \in {EmptyDict, "price" :> Num(1), "price" :> Str(<<"a">>),
               "price_range" :> Dict("min" :> Num(2)),
               "price_range" :> Dict("max" :> Num(2))},
        f \in FoodsVals}

PriceItems == OneFieldItems \cup TwoFieldItems \cup RangeItems \cup FoodsItems

NoSuggestion == [status |-> "none"]

\* No plan_trip request is in progress.
NoTrip ==
    /\ req = None_
    /\ alloc = None_
    /\ destination_name = <<>>
    /\ fetched = None_
    /\ plan_response = None_
    /\ destination_city_id = None_
    /\ response = None_
    /\ calls = <<>>

(***************************************************************************)
(* SpecPrice: extract_price applied to one raw record.                     *)
(***************************************************************************)
InitPrice ==
    /\ pc = "input"
    /\ raw_items \in {<<Dict(item)>> : item \in PriceItems}
    /\ destination = <<>>
    /\ budget = Money(0, 1)
    /\ price_value = None_
    /\ results = <<>>
    /\ suggestion = NoSuggestion
    /\ NoTrip

ExtractPrice ==
    /\ pc = "input"
    /\ price_value' = extract_price(raw_items[1].d)
    /\ pc' = "priced"
    /\ UNCHANGED <<raw_items, destination, budget, results, suggestion>>
    /\ UNCHANGED trip_vars

NextPrice == ExtractPrice

SpecPrice == InitPrice /\ [][NextPrice]_vars

(***************************************************************************)
(* SpecNorm: filter_and_map_items applied to a batch and a destination.    *)
(***************************************************************************)
\* Destinations: "", "j", "J", " j ", "jr", "r".
Destinations ==
    {<<>>, <<"j">>, <<"J">>, <<" ", "j", " ">>, <<"j", "r">>, <<"r">>}

\* Values a location field holds: strings, mappings, other types.
LocationVals ==
    {Str(<<>>), Str(<<"J">>), Str(<<"r">>), Str(<<"R", "j", " ">>),
     Dict("name" :> Str(<<"j">>)),
     Dict("name" :> Str(<<>>)),
     Dict(("name" :> Str(<<>>)) @@ ("city" :> Str(<<"r">>))),
     Dict(("name" :> Num(1)) @@ ("address" :> Str(<<"J", "r">>))),
     Dict(EmptyDict), Num(1), List(<<>>), None_}

\* A priced record with up to two location fields.
LocatedItems ==
    {("price" :> Num(1)) @@ (k1 :> v1) @@ (k2 :> v2) :
        k1 \in Keys(location_field_candidates),
        k2 \in {"city", "region", "address"},
        v1 \in LocationVals, v2 \in LocationVals}

\* A value of a price_range entry, or "absent".
RangeEntryVals == SmallVals \cup {Str(<<"2">>)}

Absent == [t |-> "absent"]

\* The mapping with the given entries, those marked Absent left out.
DictOf(entries) ==
    [k \in {key \in DOMAIN entries : entries[key] # Absent} |-> entries[k]]

PriceRanges ==
    {DictOf([min |-> a, from |-> b, max |-> c, to |-> e]) :
        a \in RangeEntryVals \cup {Absent}, b \in {Num(0), Num(2), Absent},
        c \in RangeEntryVals \cup {Absent}, e \in {Num(0), Num(2), Absent}}

\* A record with or without a direct price, and a price_range (a mapping or
\* not).
RangedItems ==
    {d @@ ("price_range" :> Dict(r)) :
        d \in {EmptyDict, "price" :> Num(0), "price" :> Num(MaxPrice)},
        r \in PriceRanges} \cup
    {("price" :> Num(MaxPrice)) @@ ("price_range" :> r) : r \in {Num(1), None_}} \cup
    {"price" :> Num(MaxPrice)}

\* Records of a batch: priced records told apart by id, records without a
\* derivable price, records that name a place.
BatchItems ==
    {("price" :> Num(p)) @@ ("id" :> i) :
        p \in 1..MaxPrice, i \in {Num(1), Str(<<" ", "2">>)}} \cup
    {EmptyDict,
     "price" :> Str(<<"a">>),
     ("price_range" :> Dict("max" :> Num(1))) @@ ("id" :> Num(1)),
     ("foods" :> List(<<Dict("price" :> Num(2)), Dict("price" :> Num(1))>>))
        @@ ("id" :> Str(<<"a">>)),
     ("price" :> Num(1)) @@ ("city" :> Str(<<"R">>)),
     ("price" :> Str(<<"2">>)) @@ ("city" :> Dict("name" :> Str(<<"J">>)))}

\* The sequences over S of length at most n.
RECURSIVE SeqsUpTo(_, _)
SeqsUpTo(S, n) ==
    IF n = 0 THEN {<<>>}
    ELSE LET shorter == SeqsUpTo(S, n - 1)
         IN  shorter \cup {Append(q, x) : q \in shorter, x \in S}

NormInputs ==
    {[raw |-> <<Dict(item)>>, dest |-> d] :
        item \in LocatedItems, d \in Destinations} \cup
    {[raw |-> <<Dict(item)>>, dest |-> <<>>] : item \in RangedItems} \cup
    {[raw |-> q, dest |-> d] :
        q \in SeqsUpTo({Dict(item) : item \in BatchItems}, MaxRaw),
        d \in {<<"j">>}}

InitNorm ==
    /\ pc = "input"
    /\ \E input \in NormInputs :
          /\ raw_items = input.raw
          /\ destination = input.dest
    /\ budget = Money(0, 1)
    /\ price_value = None_
    /\ results = <<>>
    /\ suggestion = NoSuggestion
    /\ NoTrip

Normalize ==
    /\ pc = "input"
    /\ results' = filter_and_map_items(raw_items, budget, destination)
    /\ pc' = "normalized"
    /\ UNCHANGED <<raw_items, destination, budget, price_value, suggestion>>
    /\ UNCHANGED trip_vars

NextNorm == Normalize

SpecNorm == InitNorm /\ [][NextNorm]_vars

(***************************************************************************)
(* SpecSel: build_category applied to a batch and a daily budget.          *)
(***************************************************************************)
\* Records of a category: priced ones, one without a price, one of another
\* place.
SelItems ==
    {"price" :> Num(p) : p \in 1..MaxSelPrice} \cup
    {EmptyDict, ("price" :> Num(1)) @@ ("city" :> Str(<<"R">>))}

\* Daily budgets 0, 1/2, 1, 3/2, ..., MaxSelPrice + 1/2.
SelBudgets == {Money(n, 2) : n \in 0..(2 * MaxSelPrice + 1)}

InitSel ==
    /\ pc = "input"
    /\ raw_items \in SeqsUpTo({Dict(item) : item \in SelItems}, MaxItems)
    /\ destination = <<"j">>
    /\ budget \in SelBudgets
    /\ price_value = None_
    /\ results = <<>>
    /\ suggestion = NoSuggestion
    /\ NoTrip

BuildCategory ==
    /\ pc = "input"
    /\ suggestion' = build_category(raw_items, budget, "hotels", destination)
    /\ pc' = "selected"
    /\ UNCHANGED <<raw_items, destination, budget, price_value, results>>
    /\ UNCHANGED trip_vars

NextSel == BuildCategory

SpecSel == InitSel /\ [][NextSel]_vars

(***************************************************************************)
(* plan_trip: one request, from its arrival to its response.  Each action  *)
(* is one request to the external API with the code that follows it up to  *)
(* the next request.                                                       *)
(***************************************************************************)
\* Percentages a request carries: none, the defaults moved off a sum of 1.0
\* by 0.5e-6 and by 1.5e-6 either way, and sums of 0.0 and 4.0.
PercentageInputs ==
    {None_}
    \cup {[BudgetPercentages EXCEPT !.hotels = @ + d] : d \in {-3, -1, 1, 3}}
    \cup {[c \in {"hotels", "food", "activities", "transport"} |-> u] :
            u \in {0, PctScale}}

Requests ==
    [total_budget : {60, 600},
     people_count : {2},
     days : {3},
     destination : {<<"j">>},
     percentages : PercentageInputs,
     city_id : {None_, Num(1), Num(9)},
     from_city_id : {None_, Num(2)},
     user_id : {None_, Num(7)},
     to_city_id : {None_, Num(0), Num(5)}]

CityRoster ==
    <<Dict(("id" :> Num(1)) @@ ("name" :> Str(<<" ", "J">>))),
      Dict(("id" :> Str(<<"3">>)) @@ ("name" :> Str(<<"r">>))),
      Dict(("id" :> Num(9)) @@ ("name" :> Str(<<" ">>)))>>

CityResponses ==
    {HttpResponse(200, Dict("data" :> List(CityRoster))),
     HttpResponse(200, List(<<>>)),
     HttpResponse(200, Dict(EmptyDict)),
     HttpResponse(500, None_),
     TransportFailure}

HotelRecords ==
    <<Dict(("id" :> Num(12)) @@ ("price" :> Num(30)) @@ ("city" :> Str(<<"j">>))),
      Dict(("id" :> Num(11)) @@ ("price" :> Num(3)) @@ ("city" :> Str(<<"J">>))),
      Dict("price" :> Num(5)),
      Dict(("id" :> Num(14)) @@ ("price" :> Num(2)) @@ ("city" :> Str(<<"r">>)))>>

HotelResponses ==
    {HttpResponse(200, Dict("data" :> List(HotelRecords))),
     HttpResponse(200, List(<<HotelRecords[1], None_>>)),
     HttpResponse(500, None_)}

ActivityRecords == <<Dict(("id" :> Num(31)) @@ ("price" :> Num(50)))>>

ActivityResponses ==
    {HttpResponse(200, List(ActivityRecords)),
     HttpResponse(200, Dict("items" :> List(ActivityRecords))),
     HttpResponse(404, None_)}

PlainRecords ==
    <<Dict(("id" :> Str(<<"4", "1">>)) @@ ("price" :> Str(<<"1", ",", "0">>)))>>

PlainResponses ==
    {HttpResponse(200, List(PlainRecords)),
     HttpResponse(200, List(<<Dict("price" :> Num(1))>>)),
     HttpResponse(200, List(<<>>)),
     TransportFailure}

RestaurantRecords ==
    <<Dict(("id" :> Num(0)) @@ ("price" :> Num(1))),
      Dict(("id" :> Num(21)) @@ ("price" :> Num(2))),
      Dict(("id" :> Num(22)) @@ ("price" :> Num(20)))>>

RestaurantResponses ==
    {HttpResponse(200, Dict("items" :> List(RestaurantRecords))),
     HttpResponse(200, List(<<Str(<<"a">>)>>)),
     HttpResponse(200, Str(<<"a">>)),
     HttpResponse(404, None_),
     TransportFailure}

BudgetResponses ==
    {HttpResponse(200, Dict(EmptyDict)),
     HttpResponse(201, Dict("id" :> Num(1))),
     HttpResponse(500, None_),
     TransportFailure}

Init ==
    /\ pc = "start"
    /\ req \in Requests
    /\ alloc = None_
    /\ destination_name = <<>>
    /\ fetched = None_
    /\ plan_response = None_
    /\ destination_city_id = None_
    /\ response = None_
    /\ calls = <<>>
    /\ raw_items = <<>>
    /\ destination = <<>>
    /\ budget = Money(0, 1)
    /\ price_value = None_
    /\ results = <<>>
    /\ suggestion = NoSuggestion

\* plan_trip raises: the caller receives the error response.
Fail(exc) ==
    /\ pc' = "failed"
    /\ response' = ErrorResponse(exc)

\* return plan_response
Return(plan) ==
    /\ pc' = "returned"
    /\ response' = OkResponse(plan)

\* From the call of calculate_budgets to the first request.
CalculateBudgets ==
    /\ pc = "start"
    /\ LET budgets == calculate_budgets(req)
       IN  IF budgets.raised
           THEN /\ Fail(budgets)
                /\ UNCHANGED <<alloc, destination_name>>
           ELSE /\ alloc' = budgets.value
                /\ destination_name' = req.destination
                /\ pc' = IF req.city_id # None_ THEN "fetch_cities"
                         ELSE "fetch_all_external"
                /\ UNCHANGED response
    /\ UNCHANGED <<req, fetched, plan_response, destination_city_id, calls>>
    /\ UNCHANGED fn_vars

\* cities = await fetch_cities(), and the city the request names by id.
FetchCities ==
    /\ pc = "fetch_cities"
    /\ calls' = Append(calls, Get_("cities"))
    /\ \E resp \in CityResponses :
         LET cities == fetch_list_from_external("cities", resp)
             match == city_match(cities.value, req.city_id, 1)
             city_name == Get(match.d, "name")
         IN  IF cities.raised
             THEN Fail(cities) /\ UNCHANGED destination_name
             ELSE IF match = None_
             THEN Fail(HTTPException(400, "city not found"))
                  /\ UNCHANGED destination_name
             ELSE /\ destination_name' =
                        IF city_name.t = "str" /\ Strip(city_name.s) # <<>>
                        THEN Strip(city_name.s)
                        ELSE destination_name
                  /\ pc' = "fetch_all_external"
                  /\ UNCHANGED response
    /\ UNCHANGED <<req, alloc, fetched, plan_response, destination_city_id>>
    /\ UNCHANGED fn_vars

\* await fetch_all_external(): the three requests leave together.
FetchAllExternal ==
    /\ pc = "fetch_all_external"
    /\ calls' = calls \o <<Get_("activities"), Get_("hotels"), Get_("plains")>>
    /\ \E res_activities \in ActivityResponses, res_hotels \in HotelResponses,
          res_plains \in PlainResponses :
         LET lists == fetch_all_external(res_activities, res_hotels, res_plains)
         IN  IF lists.raised
             THEN Fail(lists) /\ UNCHANGED fetched
             ELSE /\ fetched' = lists.value
                  /\ pc' = "fetch_restaurants"
                  /\ UNCHANGED response
    /\ UNCHANGED <<req, alloc, destination_name, plan_response,
                   destination_city_id>>
    /\ UNCHANGED fn_vars

\* Once the destination id is settled: submit when the request carries
\* from_city_id and user_id, return the plan otherwise.
Settled(plan) ==
    IF req.from_city_id # None_ /\ req.user_id # None_
    THEN pc' = "send_budget" /\ UNCHANGED response
    ELSE Return(plan)

\* await fetch_list_from_external("restaurants"), then the four categories
\* and the plan.
FetchRestaurants ==
    /\ pc = "fetch_restaurants"
    /\ calls' = Append(calls, Get_("restaurants"))
    /\ \E resp \in RestaurantResponses :
         LET restaurants_raw == fetch_list_from_external("restaurants", resp)
             raw == [activities |-> fetched.activities,
                     hotels |-> fetched.hotels,
                     plains |-> fetched.plains,
                     restaurants |-> restaurants_raw.value]
             plan == TripPlanResponse(alloc, raw, destination_name)
         IN  IF restaurants_raw.raised
             THEN /\ Fail(restaurants_raw)
                  /\ UNCHANGED <<fetched, plan_response, destination_city_id>>
             ELSE IF \E c \in DOMAIN raw : item_not_mapping(raw[c])
             THEN /\ Fail(Raised("TypeError", 500, "item is not a mapping"))
                  /\ fetched' = raw
                  /\ UNCHANGED <<plan_response, destination_city_id>>
             ELSE /\ fetched' = raw
                  /\ plan_response' = plan
                  /\ IF req.city_id # None_
                     THEN /\ destination_city_id' = req.city_id
                          /\ Settled(plan)
                     ELSE /\ pc' = "find_city_id_by_name"
                          /\ UNCHANGED <<destination_city_id, response>>
    /\ UNCHANGED <<req, alloc, destination_name>>
    /\ UNCHANGED fn_vars

\* destination_city_id = await find_city_id_by_name(destination_name)
FindCityIdByName ==
    /\ pc = "find_city_id_by_name"
    /\ calls' = Append(calls, Get_("cities"))
    /\ \E resp \in CityResponses :
         LET city_id == find_city_id_by_name(destination_name, resp)
         IN  IF city_id.raised
             THEN Fail(city_id) /\ UNCHANGED destination_city_id
             ELSE /\ destination_city_id' = city_id.value
                  /\ Settled(plan_response)
    /\ UNCHANGED <<req, alloc, destination_name, fetched, plan_response>>
    /\ UNCHANGED fn_vars

\* await send_budget_to_api(...) inside try / except HTTPException: pass,
\* then return plan_response.
SendBudget ==
    /\ pc = "send_budget"
    /\ \E cities_resp \in CityResponses, post_resp \in BudgetResponses :
         LET sending == send_budget_to_api(req, plan_response,
                                           destination_city_id, cities_resp,
                                           post_resp)
         IN  /\ calls' = calls \o sending.sent
             /\ IF sending.result.raised
                   /\ sending.result.exception # "HTTPException"
                THEN Fail(sending.result)
                ELSE Return(plan_response)
    /\ UNCHANGED <<req, alloc, destination_name, fetched, plan_response,
                   destination_city_id>>
    /\ UNCHANGED fn_vars

Next ==
    \/ CalculateBudgets
    \/ FetchCities
    \/ FetchAllExternal
    \/ FetchRestaurants
    \/ FindCityIdByName
    \/ SendBudget

Spec == Init /\ [][Next]_vars

(***************************************************************************)
(* SpecAlloc: calculate_budgets applied to one request.                    *)
(***************************************************************************)
\* total_budget, people_count, days.
AllocAmounts ==
    {<<9000, 3, 3>>, <<9000, 9, 1>>, <<1000, 1, 1>>, <<600, 2, 3>>,
     <<100, 1, 3>>, <<60, 2, 3>>, <<45, 2, 1>>, <<12, 4, 1>>, <<7, 1, 1>>,
     <<1, 3, 2>>}

\* The percentages of PercentageInputs, the defaults spelled out, a quarter
\* each, and everything on hotels.
AllocPercentages ==
    PercentageInputs
    \cup {BudgetPercentages,
          [c \in {"hotels", "food", "activities", "transport"} |-> PctScale \div 4],
          [c \in {"hotels", "food", "activities", "transport"} |->
              IF c = "hotels" THEN PctScale ELSE 0]}

AllocRequests ==
    {[total_budget |-> a[1], people_count |-> a[2], days |-> a[3],
      destination |-> <<"j">>, percentages |-> p, city_id |-> None_,
      from_city_id |-> None_, user_id |-> None_, to_city_id |-> None_] :
        a \in AllocAmounts, p \in AllocPercentages}

InitAlloc ==
    /\ pc = "input"
    /\ req \in AllocRequests
    /\ alloc = None_
    /\ destination_name = <<>>
    /\ fetched = None_
    /\ plan_response = None_
    /\ destination_city_id = None_
    /\ response = None_
    /\ calls = <<>>
    /\ raw_items = <<>>
    /\ destination = <<>>
    /\ budget = Money(0, 1)
    /\ price_value = None_
    /\ results = <<>>
    /\ suggestion = NoSuggestion

Allocate ==
    /\ pc = "input"
    /\ LET budgets == calculate_budgets(req)
       IN  IF budgets.raised
           THEN /\ pc' = "rejected"
                /\ response' = ErrorResponse(budgets)
                /\ UNCHANGED alloc
           ELSE /\ pc' = "allocated"
                /\ alloc' = budgets.value
                /\ UNCHANGED response
    /\ UNCHANGED <<req, destination_name, fetched, plan_response,
                   destination_city_id, calls>>
    /\ UNCHANGED fn_vars

NextAlloc == Allocate

SpecAlloc == InitAlloc /\ [][NextAlloc]_vars

(***************************************************************************)
(* Claims about extract_price (SpecPrice).                                 *)
(***************************************************************************)
C7_DirectOrder ==
    <<"price", "price_per_night", "min_price", "max_price", "amount", "cost">>

C7_RangeOrder == <<"min", "from", "start", "low", "price", "amount", "minimum">>

\* The value under `key` is present and coerces to a number.
C7_Coerces(d, key) == key \in DOMAIN d /\ coerce_price(d[key]) # None_

\* The position in `order` of the first key whose value coerces, 0 if none.
C7_First(order, d) ==
    IF \E i \in 1..Len(order) : C7_Coerces(d, order[i])
    THEN CHOOSE i \in 1..Len(order) :
            /\ C7_Coerces(d, order[i])
            /\ \A j \in 1..(i - 1) : ~C7_Coerces(d, order[j])
    ELSE 0

\* None, the empty string, a string with a letter or an inner blank, a list
\* or a mapping.
C7_UncoercibleKind(v) ==
    \/ v.t \in {"none", "list", "dict"}
    \/ v.t = "str" /\ (v.s = <<>> \/ \E i \in 1..Len(v.s) : v.s[i] = "a")
    \/ v.t = "str" /\ Strip(v.s) = <<>>
    \/ v.t = "str" /\ (\E i \in 1..Len(Strip(v.s)) : Strip(v.s)[i] = " ")

\* C7: the derived price is the coerced value of the first direct key, in
\* the order price, price_per_night, min_price, max_price, amount, cost, whose
\* value coerces; only when no direct key coerces is price_range consulted,
\* and then it is the coerced value of the first of min, from, start, low,
\* price, amount, minimum that coerces; an uncoercible value (None, "", a
\* non-numeric string, another type) is skipped, a number is taken as it is.
C7_PricePriority ==
    pc = "priced" =>
        LET item == raw_items[1].d
            i == C7_First(C7_DirectOrder, item)
            price_range == Get(item, "price_range")
            j == IF price_range.t = "dict"
                 THEN C7_First(C7_RangeOrder, price_range.d)
                 ELSE 0
        IN  /\ i > 0 => price_value = coerce_price(item[C7_DirectOrder[i]])
            /\ i = 0 /\ j > 0 =>
                  price_value = coerce_price(price_range.d[C7_RangeOrder[j]])
            /\ \A k \in DOMAIN item \cap Keys(C7_DirectOrder) :
                  /\ C7_UncoercibleKind(item[k]) => ~C7_Coerces(item, k)
                  /\ item[k].t = "num" => coerce_price(item[k]) = item[k]

\* An uncoercible direct field and an uncoercible first range key are both
\* skipped; the price comes from a later range key.
C7_Witness ==
    /\ pc = "priced"
    /\ raw_items[1].d =
          ("cost" :> Str(<<"a">>)) @@
          ("price_range" :> Dict(("min" :> None_) @@ ("low" :> Num(2))))
    /\ price_value = Num(2)

\* The sub-items the foods value holds, when it is a sequence or a mapping
\* with a data sequence.
C8_HasSubItems(item) ==
    LET foods == Get(item, "foods")
    IN  \/ foods.t = "list"
        \/ foods.t = "dict" /\ Get(foods.d, "data").t = "list"

C8_SubItems(item) ==
    LET foods == Get(item, "foods")
    IN  IF foods.t = "list" THEN foods.l ELSE foods.d["data"].l

\* The prices derived for the sub-items that have one.
C8_SubPrices(item) ==
    LET subs == C8_SubItems(item)
    IN  {extract_price(subs[i].d) : i \in {n \in 1..Len(subs) : subs[n].t = "dict"}}
            \ {None_}

C4_Raw(i) == raw_items[i].d

C5_Kept(item) == \E k \in 1..Len(results) : results[k].raw = item

\* A location was derived for the record: extract_location gave a non-empty
\* string.
C5_HasLocation(item) ==
    extract_location(item).t = "str" /\ extract_location(item).s # <<>>

\* C5: a record with a derivable price is kept if and only if no location
\* was derived for it or the destination, lower-cased and trimmed, is a
\* substring of the derived location, lower-cased.
C5_DestinationFilter ==
    pc = "normalized" =>
        \A i \in 1..Len(raw_items) :
            LET item == raw_items[i].d
            IN  extract_price(item) # None_ =>
                  ( C5_Kept(item) <=>
                      \/ ~C5_HasLocation(item)
                      \/ IsSubstring(Strip(Lower(destination)),
                                     Lower(extract_location(item).s)) )

\* A record whose area is a number and whose region is "Rj " is kept for the
\* destination " j ", with the region as its location.
C5_Witness ==
    /\ pc = "normalized"
    /\ Len(raw_items) = 1
    /\ destination = <<" ", "j", " ">>
    /\ raw_items[1].d =
          ("price" :> Num(1)) @@ ("area" :> Num(1)) @@ ("region" :> Str(<<"R", "j", " ">>))
    /\ Len(results) = 1
    /\ results[1].location = Str(<<"R", "j", " ">>)

\* No price is derivable for the record.
C6_Unusable(item) ==
    /\ \A i \in 1..Len(C7_DirectOrder) : ~C7_Coerces(item, C7_DirectOrder[i])
    /\ LET price_range == Get(item, "price_range")
       IN  price_range.t = "dict" =>
             \A i \in 1..Len(C7_RangeOrder) : ~C7_Coerces(price_range.d, C7_RangeOrder[i])
    /\ C8_HasSubItems(item) => C8_SubPrices(item) = {}

\* The batch without its i-th record.
C6_Without(raw, i) == SubSeq(raw, 1, i - 1) \o SubSeq(raw, i + 1, Len(raw))

C9_Entry(price_range, first, second) ==
    LET a == Get(price_range, first)
    IN  IF a.t = "num" \/ Truthy(a) THEN a ELSE Get(price_range, second)

\* C9: for a record with a derivable price whose price_range is a mapping,
\* min_price is the coerced value of its min or from entry and max_price the
\* coerced value of its max or to entry, whatever number the entry holds;
\* each is the derived price exactly when its entry is absent or
\* uncoercible; without a price_range mapping both are the derived price.
C9_RangeDerivation ==
    pc = "normalized" =>
        \A k \in 1..Len(results) :
            LET item == results[k].raw
                price_range == Get(item, "price_range")
            IN  IF price_range.t = "dict"
                THEN /\ results[k].min_price =
                          IF coerce_price(C9_Entry(price_range.d, "min", "from")) # None_
                          THEN coerce_price(C9_Entry(price_range.d, "min", "from"))
                          ELSE results[k].price
                     /\ results[k].max_price =
                          IF coerce_price(C9_Entry(price_range.d, "max", "to")) # None_
                          THEN coerce_price(C9_Entry(price_range.d, "max", "to"))
                          ELSE results[k].price
                ELSE /\ results[k].min_price = results[k].price
                     /\ results[k].max_price = results[k].price

(***************************************************************************)
(* Claims about build_category (SpecSel).                                  *)
(***************************************************************************)
\* The normalized list of the batch.
C1_Mapped == filter_and_map_items(raw_items, budget, destination)

\* The positions of the normalized items whose price is at most the budget.
C1_Affordable(mapped) ==
    {j \in 1..Len(mapped) : mapped[j].price.v * budget.den <= budget.num}

C1_Min(a, b) == IF a < b THEN a ELSE b

\* C1: when at least one normalized item has price <= budget (a price equal
\* to the budget included), the suggestion holds min(3, k) of the k such
\* items, none cheaper left out, in non-decreasing price order, with
\* within_budget = true and no message, and no item priced above the budget.
C1_AffordableCase ==
    pc = "selected" =>
        LET mapped == C1_Mapped
            affordable == C1_Affordable(mapped)
            items == suggestion.suggested_items
        IN  affordable # {} =>
            /\ Len(items) = C1_Min(3, Cardinality(affordable))
            /\ suggestion.within_budget = TRUE
            /\ suggestion.message = None_
            /\ \A k \in 1..Len(items) : items[k].price.v * budget.den <= budget.num
            /\ \A k \in 1..(Len(items) - 1) : items[k].price.v <= items[k + 1].price.v
            /\ \E f \in [1..Len(items) -> affordable] :
                  /\ \A k \in 1..Len(items) : items[k] = mapped[f[k]]
                  /\ \A k, l \in 1..Len(items) : k # l => f[k] # f[l]
                  /\ \A j \in affordable \ {f[k] : k \in 1..Len(items)} :
                        \A k \in 1..Len(items) :
                            items[k].price.v <= mapped[j].price.v

\* Budget 2 and prices 2, 2, 1, 1 in the input: the suggestion is 1, 1, 2,
\* the third item priced exactly at the budget, one item priced 2 left out.
C1_Witness ==
    /\ pc = "selected"
    /\ budget = Money(4, 2)
    /\ Len(raw_items) = 4
    /\ raw_items[1].d = "price" :> Num(2)
    /\ raw_items[2].d = "price" :> Num(2)
    /\ Len(C1_Mapped) = 4
    /\ Len(suggestion.suggested_items) = 3
    /\ suggestion.suggested_items[1].price = Num(1)
    /\ suggestion.suggested_items[3].price = Num(2)
    /\ suggestion.within_budget

\* C2: when the normalized list is not empty and every item is priced above
\* the budget, the suggestion holds exactly one item, whose price is the
\* minimum of the whole list, with within_budget = false and a message.
C2_OverBudgetFallback ==
    pc = "selected" =>
        LET mapped == C1_Mapped
        IN  ( /\ mapped # <<>>
              /\ \A j \in 1..Len(mapped) :
                    mapped[j].price.v * budget.den > budget.num ) =>
            /\ Len(suggestion.suggested_items) = 1
            /\ \E j \in 1..Len(mapped) : suggestion.suggested_items[1] = mapped[j]
            /\ \A j \in 1..Len(mapped) :
                  suggestion.suggested_items[1].price.v <= mapped[j].price.v
            /\ suggestion.within_budget = FALSE
            /\ suggestion.message # None_

\* Budget 1/2 and prices 2, 1 in the input: the suggestion is the item
\* priced 1 alone.
C2_Witness ==
    /\ pc = "selected"
    /\ budget = Money(1, 2)
    /\ Len(raw_items) = 2
    /\ raw_items[1].d = "price" :> Num(2)
    /\ raw_items[2].d = "price" :> Num(1)
    /\ Len(suggestion.suggested_items) = 1
    /\ suggestion.suggested_items[1].price = Num(1)
    /\ ~suggestion.within_budget
    /\ suggestion.message # None_

\* C3: when normalization yields the empty list, the suggestion has no
\* item, within_budget = false and a message, whatever the budget.
C3_NoDataCase ==
    pc = "selected" /\ C1_Mapped = <<>> =>
        /\ suggestion.suggested_items = <<>>
        /\ suggestion.within_budget = FALSE
        /\ suggestion.message # None_

\* Two records, one without a price and one of another place, under the
\* largest budget: nothing is suggested.
C3_Witness ==
    /\ pc = "selected"
    /\ budget = Money(2 * MaxSelPrice + 1, 2)
    /\ Len(raw_items) = 2
    /\ raw_items[1].d = EmptyDict
    /\ raw_items[2].d = ("price" :> Num(1)) @@ ("city" :> Str(<<"R">>))
    /\ suggestion.suggested_items = <<>>
    /\ suggestion.message = Message("no_options")

(***************************************************************************)
(* Claims about plan_trip (Spec).                                          *)
(***************************************************************************)
\* The four percentages of the request are further than 1e-6 from a sum of
\* 1.0: |sum - 1.0| > 1 / 1000000, in units of 1 / PctScale.
C10_OffSum ==
    LET p == IF req.percentages = None_ THEN BudgetPercentages
             ELSE req.percentages
        off == p.hotels + p.food + p.activities + p.transport - PctScale
    IN  (IF off < 0 THEN 0 - off ELSE off) > PctScale \div 1000000

\* The error response of a rejected percentage set.
C10_Rejected ==
    /\ pc = "failed"
    /\ response = [status_code |-> 400, detail |-> "percentages must sum to 1.0"]

\* C10: a request whose percentages do not sum to 1.0 within 1e-6 ends with
\* the HTTP 400 error of calculate_budgets, and nothing has happened by then:
\* no request to the external API (no fetch, no submission), no allocation,
\* no fetched list, no plan (no record normalised, no category selected); a
\* request whose percentages do sum to 1.0 within 1e-6 never gets that error
\* and has its allocation from the first step on.
C10_ValidationFirst ==
    /\ C10_OffSum =>
          /\ pc = "start" \/ C10_Rejected
          /\ calls = <<>>
          /\ alloc = None_
          /\ fetched = None_
          /\ plan_response = None_
          /\ destination_city_id = None_
    /\ ~C10_OffSum =>
          /\ ~C10_Rejected
          /\ pc # "start" => alloc # None_

\* A request with percentages summing to 1.0000015 has been rejected with
\* HTTP 400 before any request to the external API.
C10_Witness ==
    /\ req.percentages # None_
    /\ total_ratio(req.percentages) = PctScale + 3
    /\ C10_OffSum
    /\ C10_Rejected
    /\ calls = <<>>
    /\ plan_response = None_

(***************************************************************************)
(* Claims about calculate_budgets (SpecAlloc).                             *)
(***************************************************************************)
\* x * k, for a fraction x in lowest terms and a whole number k.
C11_Times(x, k) ==
    [num |-> x.num * (k \div GCD(k, x.den)), den |-> x.den \div GCD(k, x.den)]

\* x + y, in lowest terms.
C11_Plus(x, y) ==
    LET l == (x.den \div GCD(x.den, y.den)) * y.den
        n == x.num * (l \div x.den) + y.num * (l \div y.den)
    IN  [num |-> n \div GCD(n, l), den |-> l \div GCD(n, l)]

\* The percentages the request is allocated by.
C11_Percentages ==
    IF req.percentages = None_
    THEN [hotels |-> 4 * (PctScale \div 10), food |-> PctScale \div 4,
          activities |-> PctScale \div 5, transport |-> 3 * (PctScale \div 20)]
    ELSE req.percentages

\* The sum of the four category budgets.
C11_Total ==
    C11_Plus(C11_Plus(alloc.budgets_per_day["hotels"],
                      alloc.budgets_per_day["food"]),
             C11_Plus(alloc.budgets_per_day["activities"],
                      alloc.budgets_per_day["transport"]))

\* The sum of the four percentages, in units of 1 / PctScale.
C11_Ratio ==
    C11_Percentages.hotels + C11_Percentages.food
        + C11_Percentages.activities + C11_Percentages.transport

\* per_person_total * people_count = total_budget, per_person_per_day * days
\* = per_person_total, each category budget = per_person_per_day * its
\* percentage.
C11_Formulas ==
    /\ C11_Times(alloc.per_person_total, req.people_count)
          = [num |-> req.total_budget, den |-> 1]
    /\ C11_Times(alloc.per_person_per_day, req.days) = alloc.per_person_total
    /\ \A c \in {"hotels", "food", "activities", "transport"} :
          C11_Times(alloc.budgets_per_day[c], PctScale)
            = C11_Times(alloc.per_person_per_day, C11_Percentages[c])

\* 9000 for 3 people and 3 days with the default percentages gives 3000,
\* 1000 and 400, 250, 200, 150.
C11_Example ==
    (/\ req.total_budget = 9000 /\ req.people_count = 3 /\ req.days = 3
     /\ req.percentages = None_)
    => /\ alloc.per_person_total = [num |-> 3000, den |-> 1]
       /\ alloc.per_person_per_day = [num |-> 1000, den |-> 1]
       /\ alloc.budgets_per_day =
            [c \in {"hotels", "food", "activities", "transport"} |->
                [num |-> CASE c = "hotels" -> 400 [] c = "food" -> 250
                           [] c = "activities" -> 200 [] c = "transport" -> 150,
                 den |-> 1]]

\* C11, as stated: for an accepted request the three formulas hold, the four
\* category budgets sum to per_person_per_day, and the example gives 3000,
\* 1000 and 400, 250, 200, 150.
C11_SumsToPerDay ==
    pc = "allocated" =>
        /\ C11_Formulas
        /\ C11_Total = alloc.per_person_per_day
        /\ C11_Example

\* C11, amended: for an accepted request the three formulas hold, the four
\* category budgets sum to per_person_per_day times the sum of the four
\* percentages, a sum within 1e-6 of 1.0, so that the budgets sum to
\* per_person_per_day exactly when the percentages sum to exactly 1.0; and
\* the example gives 3000, 1000 and 400, 250, 200, 150.
C11_Computation ==
    pc = "allocated" =>
        /\ C11_Formulas
        /\ C11_Times(C11_Total, PctScale)
              = C11_Times(alloc.per_person_per_day, C11_Ratio)
        /\ C11_Ratio - PctScale <= PctScale \div 1000000
        /\ PctScale - C11_Ratio <= PctScale \div 1000000
        /\ (C11_Total = alloc.per_person_per_day) <=> (C11_Ratio = PctScale)
        /\ C11_Example

\* The example request has been allocated.
C11_Witness ==
    /\ pc = "allocated"
    /\ req.total_budget = 9000 /\ req.people_count = 3 /\ req.days = 3
    /\ req.percentages = None_
    /\ alloc.budgets_per_day["hotels"] = [num |-> 400, den |-> 1]

(***************************************************************************)
(* Claims about send_budget_to_api (Spec).                                 *)
(***************************************************************************)
\* The positions of the POST budgets requests among the requests sent.
C12_Posts == {i \in 1..Len(calls) : calls[i].method = "POST"}

\* The category of the plan behind each type of entry.
C12_Category(type) ==
    CASE type = "restaurant" -> plan_response.food
      [] type = "hotel" -> plan_response.hotels
      [] type = "activities" -> plan_response.activities
      [] type = "plane" -> plan_response.transport

\* The suggested items of a category that have an identifier.
C12_Identified(type) ==
    SelectSeq(C12_Category(type).suggested_items, LAMBDA item : item.id # None_)

\* The positions of the entries of one type in a budget_sub list.
C12_Entries(sub, type) == {i \in 1..Len(sub) : sub[i].type = type}

\* C12: in every payload sent to POST budgets, each entry is of one of the
\* four types; a type has an entry if and only if its category suggests at
\* least one item with an identifier, and then exactly one entry; the entry's
\* items are not empty and are, in order, one line per suggested item with an
\* identifier, carrying that identifier and that item's price.
C12_CategoryOmission ==
    \A p \in C12_Posts :
        LET sub == calls[p].json.budget_sub
        IN  /\ \A i \in 1..Len(sub) :
                  sub[i].type \in {"restaurant", "hotel", "activities", "plane"}
            /\ \A type \in {"restaurant", "hotel", "activities", "plane"} :
                  /\ Cardinality(C12_Entries(sub, type)) <= 1
                  /\ (C12_Entries(sub, type) # {}) <=> (C12_Identified(type) # <<>>)
                  /\ \A i \in C12_Entries(sub, type) :
                        /\ sub[i].items # <<>>
                        /\ Len(sub[i].items) = Len(C12_Identified(type))
                        /\ \A k \in 1..Len(sub[i].items) :
                              /\ sub[i].items[k].type_id
                                    = C12_Identified(type)[k].id.v
                              /\ sub[i].items[k].amount
                                    = C12_Identified(type)[k].price.v

\* A payload was sent for a plan whose hotels have three suggestions, one of
\* them without an identifier (two lines in the entry), whose transport has
\* a suggestion without an identifier (no entry) and whose activities have
\* no suggestion.
C12_Witness ==
    /\ C12_Posts # {}
    /\ Len(plan_response.hotels.suggested_items) = 3
    /\ Len(C12_Identified("hotel")) = 2
    /\ plan_response.transport.suggested_items # <<>>
    /\ C12_Identified("plane") = <<>>
    /\ plan_response.activities.suggested_items = <<>>
    /\ \A p \in C12_Posts :
          /\ C12_Entries(calls[p].json.budget_sub, "plane") = {}
          /\ \E i \in C12_Entries(calls[p].json.budget_sub, "hotel") :
                Len(calls[p].json.budget_sub[i].items) = 2

(***************************************************************************)
(* Claims about the submission step of plan_trip (Spec).                   *)
(***************************************************************************)
\* C13: once the four categories and the plan are built, the request does
\* not end with an error, whatever the destination lookup and the
\* submission do: when it ends, the caller receives the plan.
C13_BestEffort ==
    plan_response # None_ =>
        /\ pc # "failed"
        /\ pc = "returned" => response = [status_code |-> 200, body |-> plan_response]

(***************************************************************************)
(* Claims about the four category fetches of plan_trip (Spec).             *)
(***************************************************************************)
\* The request ended with an error at the fetch of the categories or at the
\* building of the plan from them.
C14_FailedOnCategories ==
    /\ pc = "failed"
    /\ calls # <<>>
    /\ calls[Len(calls)].endpoint
         \in {"activities", "hotels", "plains", "restaurants"}

\* C14: a category response of unexpected shape or a batch element that is
\* not a mapping never makes the request fail.
C14_GracefulShapes ==
    C14_FailedOnCategories =>
        response.detail \notin {"unexpected response format", "item is not a mapping"}

(***************************************************************************)
(* Claims about the order and the gating of the submission (Spec).         *)
(***************************************************************************)
\* The positions of the POST budgets requests among the requests sent.
C15_Posts == {i \in 1..Len(calls) : calls[i].method = "POST"}

\* The request lacks the origin city id or the user id.
C15_Ungated == req.from_city_id = None_ \/ req.user_id = None_

\* C15: POST budgets is sent at most once, only after the plan is built,
\* only with an origin city id, a user id and a destination id that is the
\* explicit to_city_id, else city_id, else the id found by name; a request
\* lacking the origin city id or the user id sends no POST budgets and, its
\* plan once built, does not end with an error; a request that returns,
\* returns the plan built before the submission.
C15_TwoPhase ==
    /\ Cardinality(C15_Posts) <= 1
    /\ \A p \in C15_Posts :
          /\ plan_response # None_
          /\ req.from_city_id # None_
          /\ calls[p].json.from_city_id = req.from_city_id
          /\ req.user_id # None_
          /\ calls[p].json.user_id = req.user_id
          /\ calls[p].json.to_city_id # None_
          /\ req.to_city_id # None_ => calls[p].json.to_city_id = req.to_city_id
          /\ (req.to_city_id = None_ /\ req.city_id # None_)
                => calls[p].json.to_city_id = req.city_id
    /\ C15_Ungated => C15_Posts = {}
    /\ (C15_Ungated /\ plan_response # None_) => pc # "failed"
    /\ pc = "returned" => response = [status_code |-> 200, body |-> plan_response]
====
